---- MODULE Spec2Model ----
(***************************************************************************)
(* Model of the stock-ranking dashboard script (src/main.py):              *)
(* fetch_stock_data (metric derivation), the rank-scoring block, the       *)
(* display guard, and generate_summary.                                    *)
(*                                                                         *)
(* Numbers are exact rationals <<n, d>> (d > 0, lowest terms); Python's    *)
(* None and pandas' NaN are both the empty tuple.  Binary floating-point   *)
(* rounding is not modelled.                                               *)
(***************************************************************************)
EXTENDS Integers, Sequences, FiniteSets, TLC

VARIABLES pc, inputs, results, warnings, scored, errored, displayed, summaries

vars == <<pc, inputs, results, warnings, scored, errored, displayed, summaries>>

----------------------------------------------------------------------------
(* Exact rational arithmetic standing in for Python floats.                *)

None == <<>>

Abs(x) == IF x < 0 THEN -x ELSE x

RECURSIVE GCD(_, _)
GCD(a, b) == IF b = 0 THEN a ELSE GCD(b, a % b)

R(n, d) ==
    LET g == GCD(Abs(n), Abs(d))
        s == IF d < 0 THEN -1 ELSE 1
    IN  <<(s * n) \div g, (s * d) \div g>>

Num(n) == <<n, 1>>

RAdd(x, y) == R(x[1] * y[2] + y[1] * x[2], x[2] * y[2])
RSub(x, y) == R(x[1] * y[2] - y[1] * x[2], x[2] * y[2])
RMul(x, y) == R(x[1] * y[1], x[2] * y[2])
RDiv(x, y) == R(x[1] * y[2], x[2] * y[1])
RLt(x, y) == x[1] * y[2] < y[1] * x[2]
RLe(x, y) == x[1] * y[2] <= y[1] * x[2]

\* Python truthiness of an optional number: None and 0 are falsy.
Truthy(x) == x # None /\ x[1] # 0

\* dict.get(key, default)
Get(info, key, default) == IF key \in DOMAIN info THEN info[key] ELSE default

----------------------------------------------------------------------------
(* Module-level constants of the script.                                   *)

risk_free_rate == R(65, 1000)
market_risk_premium == R(6, 100)
assumed_eps_growth == R(21, 100)
assumed_cost_of_debt == R(8, 100)

CHECK == "check"
CROSS == "cross"
NA == "N/A"

----------------------------------------------------------------------------
(* Statement frames (stock.financials, stock.cashflow): a sequence of rows *)
(* [label, series]; a series is a sequence of optional numbers.            *)

\* "net income" in label.lower()
IsNetIncomeLabel(label) == label \in {"Net Income", "Net Income Common Stockholders"}

\* "operating" in label.lower() and "activities" in label.lower()
IsOperatingActivitiesLabel(label) == label \in {"Total Cash From Operating Activities"}

\* series.dropna()
dropna(series) == SelectSeq(series, LAMBDA v : v # None)

\* The condition of the label loop looking for the given statement line.
Matches(wanted, label) ==
    IF wanted = "net income" THEN IsNetIncomeLabel(label)
    ELSE IsOperatingActivitiesLabel(label)

\* The two label loops: the first matching row whose dropna() is non-empty
\* supplies its first value; otherwise the variable keeps None.
RECURSIVE FirstValue(_, _, _)
FirstValue(frame, wanted, k) ==
    IF k > Len(frame) THEN None
    ELSE IF Matches(wanted, frame[k].label) /\ dropna(frame[k].series) # <<>>
         THEN dropna(frame[k].series)[1]
         ELSE FirstValue(frame, wanted, k + 1)

NetIncomeOf(financials) == FirstValue(financials, "net income", 1)
CfoOf(cashflow) == FirstValue(cashflow, "operating activities", 1)

\* cfo >= net_income if net_income and cfo else None   (TRUE / FALSE / None)
EarningsQuality(cfo, net_income) ==
    IF Truthy(net_income) /\ Truthy(cfo)
    THEN (IF RLe(net_income, cfo) THEN "True" ELSE "False")
    ELSE "None"

EarningsQualityLabel(eq) ==
    IF eq = "True" THEN CHECK ELSE IF eq # "None" THEN CROSS ELSE NA

EarningsQualityScore(eq) ==
    IF eq = "True" THEN Num(1) ELSE IF eq # "None" THEN Num(0) ELSE None

----------------------------------------------------------------------------
(* Body of the try block of fetch_stock_data for one ticker.  data is      *)
(* what yfinance hands back: [raises, info, financials, cashflow].         *)

beta_of(info) == Get(info, "beta", Num(1))
tax_rate_of(info) == Get(info, "taxRate", R(1, 4))
\* Mutant: the default of 0 is left out.
total_debt_of_NoDefault(info) == Get(info, "totalDebt", None)

total_debt_of(info) == Get(info, "totalDebt", Num(0))
total_equity_of(info) == Get(info, "totalStockholderEquity", Num(0))

cost_of_equity(info) == RAdd(risk_free_rate, RMul(beta_of(info), market_risk_premium))

peg_ratio(info) ==
    LET pe_ratio == Get(info, "trailingPE", None)
    IN  IF Truthy(pe_ratio) /\ Truthy(assumed_eps_growth)
        THEN RDiv(pe_ratio, RMul(assumed_eps_growth, Num(100)))
        ELSE None

roe_percent(info) ==
    LET roe == Get(info, "returnOnEquity", None)
    IN  IF Truthy(roe) THEN RMul(roe, Num(100)) ELSE None

roe_spread(info) ==
    IF Truthy(roe_percent(info))
    THEN RSub(roe_percent(info), RMul(cost_of_equity(info), Num(100)))
    ELSE None

\* info.get("ebit") or info.get("ebitda")
ebit_of(info) ==
    IF Truthy(Get(info, "ebit", None)) THEN Get(info, "ebit", None)
    ELSE Get(info, "ebitda", None)

nopat(info) ==
    IF Truthy(ebit_of(info))
    THEN RMul(ebit_of(info), RSub(Num(1), tax_rate_of(info)))
    ELSE None

invested_capital(info) == RAdd(total_debt_of(info), total_equity_of(info))

roic(info) ==
    IF Truthy(nopat(info)) /\ Truthy(invested_capital(info))
    THEN RMul(RDiv(nopat(info), invested_capital(info)), Num(100))
    ELSE None

equity_weight(info) ==
    IF Truthy(invested_capital(info))
    THEN RDiv(total_equity_of(info), invested_capital(info)) ELSE Num(0)

debt_weight(info) ==
    IF Truthy(invested_capital(info))
    THEN RDiv(total_debt_of(info), invested_capital(info)) ELSE Num(0)

wacc(info) ==
    IF Truthy(invested_capital(info))
    THEN RAdd(RMul(equity_weight(info), cost_of_equity(info)),
              RMul(RMul(debt_weight(info), assumed_cost_of_debt),
                   RSub(Num(1), tax_rate_of(info))))
    ELSE None

roic_spread(info) ==
    IF Truthy(roic(info)) /\ Truthy(wacc(info))
    THEN RSub(roic(info), RMul(wacc(info), Num(100)))
    ELSE None

wacc_percent(info) == IF Truthy(wacc(info)) THEN RMul(wacc(info), Num(100)) ELSE None

dividend_yield_percent(info) ==
    LET dividend_yield == Get(info, "dividendYield", None)
    IN  IF Truthy(dividend_yield) THEN RMul(dividend_yield, Num(100)) ELSE None

market_cap_cr(info) ==
    LET market_cap == Get(info, "marketCap", None)
    IN  IF Truthy(market_cap) THEN RDiv(market_cap, Num(10000000)) ELSE None

\* The statements of the try block that raise: the yfinance accesses
\* (lines 35-38) and arithmetic on a key that is present with value None
\* (TypeError at lines 69, 77, 80, 87).
Raises(data) ==
    \/ data.raises
    \/ beta_of(data.info) = None
    \/ Truthy(ebit_of(data.info)) /\ tax_rate_of(data.info) = None
    \/ total_debt_of(data.info) = None
    \/ total_equity_of(data.info) = None
    \/ /\ Truthy(invested_capital(data.info))
       /\ tax_rate_of(data.info) = None

\* The dict appended to results (lines 90-108).
Row(name, data) ==
    LET info == data.info
        eq == EarningsQuality(CfoOf(data.cashflow), NetIncomeOf(data.financials))
    IN  [Company |-> name,
         PE |-> Get(info, "trailingPE", None),
         IndustryPE |-> Get(info, "forwardPE", None),
         PEG |-> peg_ratio(info),
         ROE |-> roe_percent(info),
         CoE |-> RMul(cost_of_equity(info), Num(100)),
         ROESpread |-> roe_spread(info),
         ROIC |-> roic(info),
         WACC |-> wacc_percent(info),
         ROICSpread |-> roic_spread(info),
         PB |-> Get(info, "priceToBook", None),
         DE |-> Get(info, "debtToEquity", None),
         DividendYield |-> dividend_yield_percent(info),
         MarketCap |-> market_cap_cr(info),
         Price |-> Get(info, "currentPrice", None),
         EarningsQuality |-> EarningsQualityLabel(eq),
         EarningsQualityScore |-> EarningsQualityScore(eq)]

----------------------------------------------------------------------------
(* Rank scoring (lines 122-138).  A column is the sequence of one field's  *)
(* values over the rows of the frame.                                      *)

Column(rows, field) == [k \in 1..Len(rows) |-> rows[k][field]]

\* Mutant: method="min" for the per-factor ranks.
RankAverage_Min(col, k, ascending) ==
    IF col[k] = None THEN None
    ELSE Num(1 + Cardinality({j \in 1..Len(col) :
                 /\ col[j] # None
                 /\ IF ascending THEN RLt(col[j], col[k]) ELSE RLt(col[k], col[j])}))

\* Series.rank(ascending=..., method="average", na_option="keep"): the mean
\* of the 1-based positions of the tie group; NaN stays NaN.
RankAverage(col, k, ascending) ==
    IF col[k] = None THEN None
    ELSE LET defined == {j \in 1..Len(col) : col[j] # None}
             before  == {j \in defined :
                            IF ascending THEN RLt(col[j], col[k])
                                         ELSE RLt(col[k], col[j])}
             tied    == {j \in defined : col[j] = col[k]}
         IN  R(2 * Cardinality(before) + Cardinality(tied) + 1, 2)

\* Mutant: method="dense".
RankMin_Dense(col, k) ==
    IF col[k] = None THEN None
    ELSE Num(1 + Cardinality({col[j] : j \in {i \in 1..Len(col) :
                                 col[i] # None /\ RLt(col[i], col[k])}}))

\* Series.rank(method="min"): 1 + the number of strictly smaller values.
RankMin(col, k) ==
    IF col[k] = None THEN None
    ELSE Num(1 + Cardinality({j \in 1..Len(col) :
                                 col[j] # None /\ RLt(col[j], col[k])}))

\* The eight *_score columns of one row (lines 124-130).
Scores(rows, k) ==
    [PEG_score |-> RankAverage(Column(rows, "PEG"), k, TRUE),
     PE_score |-> RankAverage(Column(rows, "PE"), k, TRUE),
     PB_score |-> RankAverage(Column(rows, "PB"), k, TRUE),
     DE_score |-> RankAverage(Column(rows, "DE"), k, TRUE),
     ROESpread_score |-> RankAverage(Column(rows, "ROESpread"), k, FALSE),
     ROICSpread_score |-> RankAverage(Column(rows, "ROICSpread"), k, FALSE),
     DividendYield_score |-> RankAverage(Column(rows, "DividendYield"), k, FALSE),
     EarningsQualityScore_score |-> rows[k].EarningsQualityScore]

ScoreCols == {"PEG_score", "PE_score", "PB_score", "DE_score", "ROESpread_score",
              "ROICSpread_score", "DividendYield_score", "EarningsQualityScore_score"}

\* DataFrame.sum(axis=1) with the defaults skipna=True, min_count=0: NaN
\* cells are skipped and a row with no value at all sums to 0.
RECURSIVE SumSkipNa(_, _)
SumSkipNa(rec, cols) ==
    IF cols = {} THEN Num(0)
    ELSE LET c == CHOOSE x \in cols : TRUE
             rest == SumSkipNa(rec, cols \ {c})
         IN  IF rec[c] = None THEN rest ELSE RAdd(rec[c], rest)

TotalScore(scores) == SumSkipNa(scores, ScoreCols)

\* lines 122-134
WithScores(rows) ==
    [k \in 1..Len(rows) |->
        LET sc == Scores(rows, k)
        IN  rows[k] @@ sc @@ [TotalScore |-> TotalScore(sc)]]

\* line 136: scored_df[scored_df["Total Score"].notna()]
NotNa(rows) == SelectSeq(rows, LAMBDA r : r.TotalScore # None)

\* line 137
WithRank(rows) ==
    [k \in 1..Len(rows) |->
        rows[k] @@ [Rank |-> RankMin(Column(rows, "TotalScore"), k)]]

\* line 138: sort_values("Rank") with the default kind="quicksort", which
\* is not a stable sort: any arrangement with non-decreasing Rank can come out.
Perms(n) == {p \in [1..n -> 1..n] : \A a, b \in 1..n : a # b => p[a] # p[b]}

\* Mutant: the sort is left out.
SortedByRank_Unsorted(rows) == {rows}

SortedByRank(rows) ==
    {[k \in 1..Len(rows) |-> rows[p[k]]] : p \in
        {q \in Perms(Len(rows)) :
            \A a, b \in 1..Len(rows) :
                a < b => RLe(rows[q[a]].Rank, rows[q[b]].Rank)}}

----------------------------------------------------------------------------
(* generate_summary (lines 166-198).  A cell of the frame that holds NaN   *)
(* fails "< 1" and "> 0" just as a None fails "is not None".               *)

\* Mutant: a failing dividend check adds a caution like the other checks.
generate_summary_DividendCaution(row) ==
    LET ok == row.DividendYield # None /\ RLt(Num(1), row.DividendYield)
    IN  [Company |-> row.Company,
         positives |-> IF ok THEN <<"Healthy Dividend Yield">> ELSE <<>>,
         cautions |-> IF ok THEN <<>> ELSE <<"Low Dividend Yield">>]

generate_summary(row) ==
    LET p1 == IF row.PEG # None /\ RLt(row.PEG, Num(1))
              THEN <<"PEG < 1">> ELSE <<>>
        c1 == IF p1 = <<>> THEN <<"PEG >= 1 or unavailable">> ELSE <<>>
        p2 == IF row.ROESpread # None /\ RLt(Num(0), row.ROESpread)
              THEN <<"ROE exceeds Cost of Equity">> ELSE <<>>
        c2 == IF p2 = <<>> THEN <<"ROE <= CoE">> ELSE <<>>
        p3 == IF row.ROICSpread # None /\ RLt(Num(0), row.ROICSpread)
              THEN <<"ROIC exceeds WACC">> ELSE <<>>
        c3 == IF p3 = <<>> THEN <<"ROIC <= WACC">> ELSE <<>>
        p4 == IF row.DE # None /\ RLt(row.DE, Num(1))
              THEN <<"Low Debt-to-Equity">> ELSE <<>>
        c4 == IF p4 = <<>> THEN <<"High Debt">> ELSE <<>>
        p5 == IF row.DividendYield # None /\ RLt(Num(1), row.DividendYield)
              THEN <<"Healthy Dividend Yield">> ELSE <<>>
        p6 == IF row.EarningsQuality = CHECK
              THEN <<"Strong Earnings Quality">> ELSE <<>>
        c6 == IF row.EarningsQuality # CHECK /\ row.EarningsQuality = CROSS
              THEN <<"Weak Earnings Quality">> ELSE <<>>
    IN  [Company |-> row.Company,
         positives |-> p1 \o p2 \o p3 \o p4 \o p5 \o p6,
         cautions |-> c1 \o c2 \o c3 \o c4 \o c6]

----------------------------------------------------------------------------
(* Inputs: what yfinance can return for one ticker.                        *)

InfoKeys == {"returnOnEquity", "trailingPE", "forwardPE", "priceToBook",
             "debtToEquity", "dividendYield", "marketCap", "currentPrice",
             "beta", "ebit", "ebitda", "taxRate", "totalDebt",
             "totalStockholderEquity"}

EmptyInfo == [k \in {} |-> None]

\* Every key present with a non-zero value.
FullInfo ==
    [returnOnEquity |-> R(1, 5), trailingPE |-> Num(42), forwardPE |-> Num(15),
     priceToBook |-> Num(3), debtToEquity |-> R(3, 2), dividendYield |-> R(1, 50),
     marketCap |-> Num(50000000), currentPrice |-> Num(120), beta |-> R(3, 2),
     ebit |-> Num(100), ebitda |-> Num(120), taxRate |-> R(3, 10),
     totalDebt |-> Num(100), totalStockholderEquity |-> Num(300)]

Frame(label, series) == <<[label |-> label, series |-> series]>>

EmptyData == [raises |-> FALSE, info |-> EmptyInfo, financials |-> <<>>, cashflow |-> <<>>]

FullData ==
    [raises |-> FALSE, info |-> FullInfo,
     financials |-> Frame("Net Income", <<Num(50)>>),
     cashflow |-> Frame("Total Cash From Operating Activities", <<Num(80)>>)]

Bases == {EmptyData, FullData}

\* The value each key of a group may take when present.
GroupValues(key) ==
    CASE key = "beta" -> {None, Num(0), Num(1), R(3, 2)}
      [] key = "returnOnEquity" -> {None, Num(0), R(1, 5), R(1, 20), R(-1, 10)}
      [] key = "trailingPE" -> {Num(0), Num(10), Num(21), Num(42)}
      [] key = "dividendYield" -> {Num(0), R(1, 100), R(1, 50)}
      [] key = "marketCap" -> {Num(0), Num(50000000)}
      [] key = "debtToEquity" -> {Num(0), R(1, 2), Num(1), R(3, 2)}
      [] key = "ebit" -> {Num(0), Num(100)}
      [] key = "ebitda" -> {Num(0), Num(80)}
      [] key = "taxRate" -> {None, R(1, 2), Num(1)}
      [] key = "totalDebt" -> {None, Num(0), Num(100)}
      [] key = "totalStockholderEquity" -> {None, Num(0), Num(300), Num(-100)}
      [] OTHER -> {Num(0), Num(3)}

Groups == {{"beta", "returnOnEquity"},
           {"trailingPE", "dividendYield", "marketCap"},
           {"debtToEquity", "priceToBook", "forwardPE", "currentPrice"},
           {"ebit", "ebitda", "taxRate", "totalDebt", "totalStockholderEquity"}}

\* Every assignment of a subset of the group's keys.
RECURSIVE PartialInfos(_)
PartialInfos(group) ==
    IF group = {} THEN {EmptyInfo}
    ELSE LET key == CHOOSE k \in group : TRUE
             rest == PartialInfos(group \ {key})
         IN  rest \cup {[k \in DOMAIN f \cup {key} |-> IF k = key THEN v ELSE f[k]] :
                           f \in rest, v \in GroupValues(key)}

\* base with the group's keys replaced by the assignment f.
Override(base, group, f) ==
    [k \in (DOMAIN base \ group) \cup DOMAIN f |->
        IF k \in DOMAIN f THEN f[k] ELSE base[k]]

SeriesValues == {None, Num(-50), Num(0), Num(50), Num(80)}
SeriesSet == {<<>>} \cup {<<v>> : v \in SeriesValues}
                 \cup {<<v, w>> : v \in {None, Num(50)}, w \in {None, Num(0), Num(80)}}
FinancialsLabels == {"Net Income", "Total Revenue"}
CashflowLabels == {"Total Cash From Operating Activities", "Operating Cash Flow"}

Frames(labels) ==
    {<<>>} \cup {Frame(l, s) : l \in labels, s \in SeriesSet}
           \cup {Frame(l1, s1) \o Frame(l2, s2) :
                    l1 \in labels, l2 \in labels,
                    s1 \in {<<>>, <<None>>, <<Num(50)>>}, s2 \in {<<Num(0)>>, <<Num(80)>>}}

SimpleFrames(label) == {<<>>} \cup {Frame(label, <<v>>) : v \in SeriesValues \ {None}}

\* One ticker's data for the derivation runs: a base with one group of
\* keys, or the two statement frames, varied over all its values.
DeriveData ==
    UNION {{[b EXCEPT !.info = Override(b.info, g, f)] :
               b \in Bases, f \in PartialInfos(g)} : g \in Groups}
    \cup {[b EXCEPT !.financials = fin, !.cashflow = cf] :
             b \in Bases, fin \in Frames(FinancialsLabels),
             cf \in SimpleFrames("Total Cash From Operating Activities")}
    \cup {[b EXCEPT !.financials = fin, !.cashflow = cf] :
             b \in Bases, fin \in SimpleFrames("Net Income"),
             cf \in Frames(CashflowLabels)}
    \cup {[b EXCEPT !.raises = TRUE] : b \in Bases}

\* One ticker's data for the whole-script runs.
WithInfo(info) == [EmptyData EXCEPT !.info = info]

PipelineData ==
    {EmptyData,
     WithInfo([trailingPE |-> Num(0)]),
     WithInfo([trailingPE |-> Num(10)]),
     WithInfo([trailingPE |-> Num(42), returnOnEquity |-> R(1, 5)]),
     FullData,
     [FullData EXCEPT !.cashflow = Frame("Total Cash From Operating Activities", <<Num(20)>>)],
     [EmptyData EXCEPT !.raises = TRUE],
     [FullData EXCEPT !.info = Override(FullInfo, {"beta"}, [k \in {"beta"} |-> None])]}

\* tickers (lines 10-21): the names are 1..NumTickers, in dict order.
NumTickers == 3

----------------------------------------------------------------------------
(* The script, top to bottom.                                              *)

Init ==
    /\ pc = "fetch"
    /\ inputs = <<>>
    /\ results = <<>>
    /\ warnings = <<>>
    /\ scored = <<>>
    /\ errored = FALSE
    /\ displayed = FALSE
    /\ summaries = <<>>

\* Mutant: the except branch also appends a default-filled record.
TryBody_DefaultRow(name, data) ==
    /\ inputs' = Append(inputs, data)
    /\ IF Raises(data)
       THEN /\ warnings' = Append(warnings, name)
            /\ results' = Append(results, Row(name, EmptyData))
       ELSE /\ results' = Append(results, Row(name, data))
            /\ UNCHANGED warnings

\* One iteration of the loop of fetch_stock_data (lines 33-111).
TryBody(name, data) ==
    /\ inputs' = Append(inputs, data)
    /\ IF Raises(data)
       THEN /\ warnings' = Append(warnings, name)
            /\ UNCHANGED results
       ELSE /\ results' = Append(results, Row(name, data))
            /\ UNCHANGED warnings

FetchEntity ==
    /\ pc = "fetch"
    /\ Len(inputs) < NumTickers
    /\ \E data \in PipelineData : TryBody(Len(inputs) + 1, data)
    /\ UNCHANGED <<pc, scored, errored, displayed, summaries>>

\* Mutant: the emptiness check never fires.
Empty_Never(rows) == FALSE

\* df.empty (line 118)
Empty(rows) == rows = <<>>

\* return pd.DataFrame(results); if df.empty: st.error, st.stop (113-120)
CheckEmpty ==
    /\ pc = "fetch"
    /\ Len(inputs) = NumTickers
    /\ IF Empty(results)
       THEN errored' = TRUE /\ pc' = "stopped"
       ELSE errored' = FALSE /\ pc' = "score"
    /\ UNCHANGED <<inputs, results, warnings, scored, displayed, summaries>>

\* lines 122-134
Score ==
    /\ pc = "score"
    /\ scored' = WithScores(results)
    /\ pc' = "rank"
    /\ UNCHANGED <<inputs, results, warnings, errored, displayed, summaries>>

\* lines 136-137
FilterRank ==
    /\ pc = "rank"
    /\ scored' = WithRank(NotNa(scored))
    /\ pc' = "sort"
    /\ UNCHANGED <<inputs, results, warnings, errored, displayed, summaries>>

\* line 138
Sort ==
    /\ pc = "sort"
    /\ scored' \in SortedByRank(scored)
    /\ pc' = "display"
    /\ UNCHANGED <<inputs, results, warnings, errored, displayed, summaries>>

\* line 146
Display ==
    /\ pc = "display"
    /\ displayed' = TRUE
    /\ pc' = "summary"
    /\ UNCHANGED <<inputs, results, warnings, scored, errored, summaries>>

\* One iteration of the loop at lines 202-213.
Summarize ==
    /\ pc = "summary"
    /\ Len(summaries) < Len(scored)
    /\ summaries' = Append(summaries, generate_summary(scored[Len(summaries) + 1]))
    /\ UNCHANGED <<pc, inputs, results, warnings, scored, errored, displayed>>

\* line 215
Finish ==
    /\ pc = "summary"
    /\ Len(summaries) = Len(scored)
    /\ pc' = "done"
    /\ UNCHANGED <<inputs, results, warnings, scored, errored, displayed, summaries>>

Next ==
    \/ FetchEntity
    \/ CheckEmpty
    \/ Score
    \/ FilterRank
    \/ Sort
    \/ Display
    \/ Summarize
    \/ Finish

Spec == Init /\ [][Next]_vars

----------------------------------------------------------------------------
(* Derivation and summary of a single ticker over the full input sets.     *)

InitDerive ==
    /\ pc = "derive"
    /\ inputs = <<>>
    /\ results = <<>>
    /\ warnings = <<>>
    /\ scored = <<>>
    /\ errored = FALSE
    /\ displayed = FALSE
    /\ summaries = <<>>

DeriveOne ==
    /\ pc = "derive"
    /\ \E data \in DeriveData : TryBody(1, data)
    /\ pc' = "derived"
    /\ UNCHANGED <<scored, errored, displayed, summaries>>

SummarizeOne ==
    /\ pc = "derived"
    /\ results # <<>>
    /\ summaries' = <<generate_summary(results[1])>>
    /\ pc' = "done"
    /\ UNCHANGED <<inputs, results, warnings, scored, errored, displayed>>

NextDerive ==
    \/ DeriveOne
    \/ SummarizeOne

SpecDerive == InitDerive /\ [][NextDerive]_vars

----------------------------------------------------------------------------
(* Properties.                                                             *)

Derived == pc # "derive" /\ pc # "fetch" /\ Len(inputs) = 1
Ranked == pc \in {"sort", "display", "summary", "done"}
Sorted == pc \in {"display", "summary", "done"}

NumericFields == {"PE", "IndustryPE", "PEG", "ROE", "CoE", "ROESpread", "ROIC", "WACC",
                  "ROICSpread", "PB", "DE", "DividendYield", "MarketCap", "Price",
                  "EarningsQualityScore"}

EveryFieldPresent(data) ==
    /\ ~data.raises
    /\ DOMAIN data.info = InfoKeys
    /\ \A k \in InfoKeys : data.info[k] # None
    /\ NetIncomeOf(data.financials) # None
    /\ CfoOf(data.cashflow) # None

NoUnavailable(row) ==
    /\ \A f \in NumericFields : row[f] # None
    /\ row.EarningsQuality # NA

\* C1: a record with every field present (zero values included) derives to
\* a row with no unavailable field, and CoE (%) = (0.065 + beta * 0.06) * 100.
C1_AllPresentNoneUnavailable ==
    (Derived /\ EveryFieldPresent(inputs[1])) =>
        /\ results # <<>>
        /\ NoUnavailable(results[1])
        /\ results[1].CoE = RMul(RAdd(R(65, 1000), RMul(inputs[1].info["beta"], R(6, 100))),
                                 Num(100))

\* C2: the earnings-quality flag is good iff cfo and net income are both
\* present and cfo >= net_income, poor iff both present and cfo < net_income,
\* unknown iff one is absent.
C2_EarningsQualityTriState ==
    (Derived /\ results # <<>>) =>
        LET cfo == CfoOf(inputs[1].cashflow)
            ni == NetIncomeOf(inputs[1].financials)
            both == cfo # None /\ ni # None
            row == results[1]
        IN  /\ (row.EarningsQuality = CHECK /\ row.EarningsQualityScore = Num(1))
                 <=> (both /\ RLe(ni, cfo))
            /\ (row.EarningsQuality = CROSS /\ row.EarningsQualityScore = Num(0))
                 <=> (both /\ RLt(cfo, ni))
            /\ (row.EarningsQuality = NA /\ row.EarningsQualityScore = None)
                 <=> ~both

RankedFactors == {<<"PEG", "PEG_score", TRUE>>, <<"PE", "PE_score", TRUE>>,
                  <<"PB", "PB_score", TRUE>>, <<"DE", "DE_score", TRUE>>,
                  <<"ROESpread", "ROESpread_score", FALSE>>,
                  <<"ROICSpread", "ROICSpread_score", FALSE>>,
                  <<"DividendYield", "DividendYield_score", FALSE>>}

\* Entities of the frame whose value for the field is defined and strictly
\* better than v (lower when ascending, higher when descending) / equal to v.
Better(field, ascending, v) ==
    {j \in 1..Len(results) :
        /\ results[j][field] # None
        /\ IF ascending THEN RLt(results[j][field], v) ELSE RLt(v, results[j][field])}

Equal(field, v) == {j \in 1..Len(results) : results[j][field] = v}

AllScoresUnavailable(row) == \A c \in ScoreCols : row[c] = None

\* C4: an entity whose every per-factor score is unavailable never appears
\* in the ranked output; every other derived entity does.
C4_AllUnavailableDropped ==
    Ranked =>
        /\ \A k \in 1..Len(scored) : ~AllScoresUnavailable(scored[k])
        /\ \A j \in 1..Len(results) :
              (\E f \in RankedFactors : results[j][f[1]] # None)
                  => \E k \in 1..Len(scored) : scored[k].Company = results[j].Company

\* C5: Rank orders the ranked entities exactly as Total Score does, equal
\* totals share a Rank, and Rank = 1 + the number of strictly smaller totals.
C5_RankIsCompetitionRankOfTotal ==
    Ranked =>
        /\ \A x, y \in 1..Len(scored) :
              /\ RLt(scored[x].Rank, scored[y].Rank)
                   <=> RLt(scored[x].TotalScore, scored[y].TotalScore)
              /\ scored[x].TotalScore = scored[y].TotalScore
                   => scored[x].Rank = scored[y].Rank
        /\ \A x \in 1..Len(scored) :
              scored[x].Rank =
                 Num(1 + Cardinality({y \in 1..Len(scored) :
                                         RLt(scored[y].TotalScore, scored[x].TotalScore)}))
        /\ scored # <<>> => \E x \in 1..Len(scored) : scored[x].Rank = Num(1)

\* Two entities tied at Rank 1 and a third at Rank 3.
C5_Witness ==
    /\ pc = "done"
    /\ \E a, b, c \in 1..Len(scored) :
          /\ a # b
          /\ scored[a].Rank = Num(1) /\ scored[b].Rank = Num(1)
          /\ scored[c].Rank = Num(3)

\* C6: an empty ranked sequence ends the run at the no-data error before
\* any table or summary; the table is shown only for a non-empty sequence.
C6_EmptyStopsBeforeDisplay ==
    /\ errored <=> pc = "stopped"
    /\ pc = "stopped" => /\ results = <<>> /\ scored = <<>>
                         /\ ~displayed /\ summaries = <<>>
                         /\ ~ENABLED Next
    /\ (pc # "fetch" /\ results = <<>>) => pc = "stopped"
    /\ Sorted => scored # <<>>
    /\ displayed => scored # <<>> /\ ~errored
    /\ summaries # <<>> => displayed

\* Every ticker failed: the run stopped on the error with nothing shown.
C6_Witness ==
    /\ pc = "stopped" /\ errored /\ ~displayed
    /\ Len(warnings) = NumTickers

RECURSIVE ExpectedResults(_)
ExpectedResults(ins) ==
    IF ins = <<>> THEN <<>>
    ELSE LET front == SubSeq(ins, 1, Len(ins) - 1)
             last == ins[Len(ins)]
         IN  IF Raises(last) THEN ExpectedResults(front)
             ELSE Append(ExpectedResults(front), Row(Len(ins), last))

RECURSIVE ExpectedWarnings(_)
ExpectedWarnings(ins) ==
    IF ins = <<>> THEN <<>>
    ELSE LET front == SubSeq(ins, 1, Len(ins) - 1)
         IN  IF Raises(ins[Len(ins)]) THEN Append(ExpectedWarnings(front), Len(ins))
             ELSE ExpectedWarnings(front)

\* C7: a failing entity adds no record and one warning with its name, the
\* others are derived in input order, and nothing is ranked before every
\* entity has been derived or has failed.
C7_FailureSkipsOnlyThatEntity ==
    /\ results = ExpectedResults(inputs)
    /\ warnings = ExpectedWarnings(inputs)
    /\ Len(results) + Len(warnings) = Len(inputs)
    /\ (pc # "fetch" \/ scored # <<>>) => Len(inputs) = NumTickers

\* A ticker failed and a later one was still derived and ranked.
C7_Witness ==
    /\ pc = "done"
    /\ \E a, b \in 1..Len(inputs) :
          /\ a < b /\ Raises(inputs[a]) /\ ~Raises(inputs[b])
          /\ \E k \in 1..Len(scored) : scored[k].Company = b
          /\ \A k \in 1..Len(scored) : scored[k].Company # a

RECURSIVE IsSubsequence(_, _)
IsSubsequence(s, t) ==
    IF s = <<>> THEN TRUE
    ELSE IF t = <<>> THEN FALSE
    ELSE IF s[1] = t[1] THEN IsSubsequence(Tail(s), Tail(t))
    ELSE IsSubsequence(s, Tail(t))

Has(seq, x) == \E k \in 1..Len(seq) : seq[k] = x

SummarizedRows == IF scored # <<>> THEN scored ELSE results

SummaryAsClaimed(s, row) ==
    /\ Has(s.positives, "PEG < 1") <=> (row.PEG # None /\ RLt(row.PEG, Num(1)))
    /\ Has(s.cautions, "PEG >= 1 or unavailable") <=> ~Has(s.positives, "PEG < 1")
    /\ Has(s.positives, "ROE exceeds Cost of Equity")
          <=> (row.ROESpread # None /\ RLt(Num(0), row.ROESpread))
    /\ Has(s.cautions, "ROE <= CoE") <=> ~Has(s.positives, "ROE exceeds Cost of Equity")
    /\ Has(s.positives, "ROIC exceeds WACC")
          <=> (row.ROICSpread # None /\ RLt(Num(0), row.ROICSpread))
    /\ Has(s.cautions, "ROIC <= WACC") <=> ~Has(s.positives, "ROIC exceeds WACC")
    /\ Has(s.positives, "Low Debt-to-Equity") <=> (row.DE # None /\ RLt(row.DE, Num(1)))
    /\ Has(s.cautions, "High Debt") <=> ~Has(s.positives, "Low Debt-to-Equity")
    /\ Has(s.positives, "Healthy Dividend Yield")
          <=> (row.DividendYield # None /\ RLt(Num(1), row.DividendYield))
    /\ Has(s.positives, "Strong Earnings Quality") <=> row.EarningsQuality = CHECK
    /\ Has(s.cautions, "Weak Earnings Quality") <=> row.EarningsQuality = CROSS
    /\ IsSubsequence(s.positives,
                     <<"PEG < 1", "ROE exceeds Cost of Equity", "ROIC exceeds WACC",
                       "Low Debt-to-Equity", "Healthy Dividend Yield",
                       "Strong Earnings Quality">>)
    /\ IsSubsequence(s.cautions,
                     <<"PEG >= 1 or unavailable", "ROE <= CoE", "ROIC <= WACC",
                       "High Debt", "Weak Earnings Quality">>)
    /\ Len(s.positives) + Len(s.cautions) \in 4..6
    /\ Len(s.cautions) <= 5

\* C8: each summary holds, in check order, one statement for each of PEG,
\* ROE - CoE, ROIC - WACC and D/E (positive iff available and within its
\* threshold, else caution), a dividend positive iff the yield is above 1
\* and never a dividend caution, and for earnings quality a positive for
\* good, a caution for poor, nothing for unknown: 4 to 6 statements, at
\* most 5 cautions.
C8_SummaryStatements ==
    \A k \in 1..Len(summaries) :
        /\ summaries[k].Company = SummarizedRows[k].Company
        /\ SummaryAsClaimed(summaries[k], SummarizedRows[k])

\* An unavailable PEG fell to its caution, and an available yield of
\* exactly 1 produced no statement at all: five statements.
C8_Witness ==
    /\ pc = "done" /\ Len(summaries) = 1
    /\ results[1].PEG = None
    /\ Has(summaries[1].cautions, "PEG >= 1 or unavailable")
    /\ results[1].DividendYield = Num(1)
    /\ ~Has(summaries[1].positives, "Healthy Dividend Yield")
    /\ Has(summaries[1].positives, "Strong Earnings Quality")
    /\ Len(summaries[1].positives) + Len(summaries[1].cautions) = 5

RankAscending ==
    \A a, b \in 1..Len(scored) : a < b => RLe(scored[a].Rank, scored[b].Rank)

\* C9 as claimed: the output is in ascending Rank and entities sharing a
\* Rank keep their input order.
C9_StableOrder ==
    Sorted =>
        /\ RankAscending
        /\ \A a, b \in 1..Len(scored) :
              (a < b /\ scored[a].Rank = scored[b].Rank)
                  => scored[a].Company < scored[b].Company

\* C9 amended: the output holds each ranked entity once, in ascending Rank
\* (the order among entities sharing a Rank is not fixed).
C9_OrderedByRank ==
    Sorted =>
        /\ RankAscending
        /\ \A a, b \in 1..Len(scored) : a # b => scored[a].Company # scored[b].Company

\* Sorting moved an entity forward, and two entities sharing a Rank came
\* out against their input order.
C9_Witness ==
    /\ pc = "display"
    /\ \E a, b, c \in 1..Len(scored) :
          /\ a < b /\ scored[a].Rank = scored[b].Rank
          /\ scored[a].Company > scored[b].Company
          /\ scored[c].Rank # scored[a].Rank

MissingDebtAndEquity(data) ==
    /\ "totalDebt" \notin DOMAIN data.info
    /\ "totalStockholderEquity" \notin DOMAIN data.info

====
